---- MODULE Spec2Model ----
(***************************************************************************)
(* Model of svg_kleinian (src/src/main.rs): Grandma's recipe generators,   *)
(* the Moebius matrix algebra and the recursive limit-set traversal        *)
(* (limitset / branch) that appends move_to / line_to commands to a path.  *)
(*                                                                         *)
(* Complex<f64> values are modelled as exact Gaussian rationals            *)
(* (re + im*i) / den in lowest terms with den > 0; den = 0 stands for the  *)
(* non-finite result of a division by zero.  Rounding of f64 is therefore  *)
(* abstracted: every trace pair used below gives generators with Gaussian  *)
(* rational entries, for which the model's arithmetic is exact.            *)
(* The recursion of branch is modelled with an explicit call stack.        *)
(***************************************************************************)
EXTENDS Integers, Sequences, FiniteSets, TLC

\* ------------------------------------------------------------------ bounds
\* largest max_level handed to limitset
MaxLevel == 3
\* half-width of the Gaussian-integer grid searched by csqrt
SqrtRange == 4

\* -------------------------------------------------- exact complex numbers
Abs(n) == IF n < 0 THEN -n ELSE n

RECURSIVE GCD(_, _)
GCD(m, n) == IF n = 0 THEN m ELSE GCD(n, m % n)

\* result of a division by zero (inf / NaN components)
NonFinite == [re |-> 0, im |-> 0, den |-> 0]

IsFinite(z) == z.den # 0

\* (re + im*i) / den brought to lowest terms with a positive denominator
Reduce(re, im, den) ==
    IF den = 0 THEN NonFinite
    ELSE LET k == GCD(GCD(Abs(re), Abs(im)), Abs(den))
             s == IF den < 0 THEN -1 ELSE 1
         IN  [re |-> (s * re) \div k, im |-> (s * im) \div k, den |-> (s * den) \div k]

\* Complex::new(re, im) for integer parts
Complex_new(re, im) == [re |-> re, im |-> im, den |-> 1]

\* a real f64 literal n used as a factor or a divisor
Real(n) == Complex_new(n, 0)

\* Complex::i()
Complex_i == Complex_new(0, 1)

one == Complex_new(1, 0)

Cneg(z) == [re |-> -z.re, im |-> -z.im, den |-> z.den]

Cadd(x, y) ==
    IF ~IsFinite(x) \/ ~IsFinite(y) THEN NonFinite
    ELSE LET k == GCD(x.den, y.den)
             fx == y.den \div k
             fy == x.den \div k
         IN  Reduce(x.re * fx + y.re * fy, x.im * fx + y.im * fy, x.den * fx)

Csub(x, y) == Cadd(x, Cneg(y))

Cmul(x, y) ==
    IF ~IsFinite(x) \/ ~IsFinite(y) THEN NonFinite
    ELSE Reduce(x.re * y.re - x.im * y.im, x.re * y.im + x.im * y.re, x.den * y.den)

\* x / y : x * conj(y) / |y|^2 ; a zero divisor gives a non-finite value
Cdiv(x, y) ==
    IF ~IsFinite(x) \/ ~IsFinite(y) THEN NonFinite
    ELSE LET n == y.re * y.re + y.im * y.im
             q == Reduce(x.re * y.re + x.im * y.im, x.im * y.re - x.re * y.im, n)
             k == GCD(y.den, x.den)
         IN  IF n = 0 THEN NonFinite
             ELSE Cmul(q, [re |-> y.den \div k, im |-> 0, den |-> x.den \div k])

\* |z|^2 as the fraction <<numerator, denominator>>
norm_sqr(z) == <<z.re * z.re + z.im * z.im, z.den * z.den>>

\* n1/d1 < n2/d2 for n1, n2 >= 0 and d1, d2 > 0, by continued-fraction
\* expansion (no cross products, so no overflow)
RECURSIVE FracLess(_, _, _, _)
FracLess(n1, d1, n2, d2) ==
    LET q1 == n1 \div d1
        q2 == n2 \div d2
        r1 == n1 % d1
        r2 == n2 % d2
    IN  IF q1 # q2 THEN q1 < q2
        ELSE IF r2 = 0 THEN FALSE
        ELSE IF r1 = 0 THEN TRUE
        ELSE FracLess(d2, r2, d1, r1)

\* principal square root (non-negative real part; for a negative real
\* argument with +0.0 imaginary part the root on the positive imaginary axis)
csqrt(z) ==
    LET Grid == {Complex_new(x, y) : x \in 0..SqrtRange, y \in (-SqrtRange)..SqrtRange}
        Roots == {w \in Grid : Cmul(w, w) = z /\ (w.re > 0 \/ w.im >= 0)}
    IN  IF Roots = {} THEN NonFinite ELSE CHOOSE w \in Roots : TRUE

\* ------------------------------------------------------------------- Mat
Mat_new(a, b, c, d) == [a |-> a, b |-> b, c |-> c, d |-> d]

Mat_id == [a |-> Complex_new(1, 0), b |-> Complex_new(0, 0),
           c |-> Complex_new(0, 0), d |-> Complex_new(1, 0)]

adj(m) == [a |-> m.d, b |-> Cneg(m.b), c |-> Cneg(m.c), d |-> m.a]

mob(m, z) == Cdiv(Cadd(Cmul(m.a, z), m.b), Cadd(Cmul(m.c, z), m.d))

mul(m, v) ==
    [a |-> Cadd(Cmul(m.a, v.a), Cmul(m.b, v.c)),
     b |-> Cadd(Cmul(m.a, v.b), Cmul(m.b, v.d)),
     c |-> Cadd(Cmul(m.c, v.a), Cmul(m.d, v.c)),
     d |-> Cadd(Cmul(m.c, v.b), Cmul(m.d, v.d))]

\* ---------------------------------------------------------------- Letter
Letter == {"A", "B", "AI", "BI"}

inv(l) ==
    CASE l = "A" -> "AI"
      [] l = "B" -> "BI"
      [] l = "AI" -> "A"
      [] l = "BI" -> "B"

\* ------------------------------------------------------------------- Bag
Bag_new(a, b, ainv, binv) == [a |-> a, b |-> b, ainv |-> ainv, binv |-> binv]

at(bag, l) ==
    CASE l = "A" -> bag.a
      [] l = "B" -> bag.b
      [] l = "AI" -> bag.ainv
      [] l = "BI" -> bag.binv

\* -------------------------------------------------------------- Kleinian
\* Option<Data>: None, or Some(sequence of path commands)
None == [some |-> FALSE, cmds |-> << >>]

Some(cmds) == [some |-> TRUE, cmds |-> cmds]

move_to(z) == [op |-> "move_to", p |-> z]

line_to(z) == [op |-> "line_to", p |-> z]

Kleinian_new(a, b) ==
    [mats |-> Bag_new(a, b, adj(a), adj(b)),
     data |-> None,
     last |-> Complex_new(1, 0)]

mat(g, l) == at(g.mats, l)

\* endfix with the tail of A cut short to B^-1
endfix_short_tail(g, l) ==
    CASE l = "A" -> mob(g.mats.binv, one)
      [] l = "B" -> mob(g.mats.binv, one)
      [] l = "AI" -> one
      [] l = "BI" -> mob(g.mats.ainv, one)

\* endfix with the arm of B^-1 copied from the arm of B
endfix_copied_arm(g, l) ==
    CASE l = "A" -> mob(mul(g.mats.binv, g.mats.ainv), one)
      [] l = "B" -> mob(g.mats.binv, one)
      [] l = "AI" -> one
      [] l = "BI" -> mob(g.mats.binv, one)

endfix(g, l) ==
    CASE l = "A" -> mob(mul(g.mats.binv, g.mats.ainv), one)
      [] l = "B" -> mob(g.mats.binv, one)
      [] l = "AI" -> one
      [] l = "BI" -> mob(g.mats.ainv, one)

\* line that starts a new subpath on every call
line_always_move_to(g, z) ==
    [g EXCEPT !.data = Some(Append(g.data.cmds, move_to(z))),
              !.last = z]

line(g, z) ==
    [g EXCEPT !.data = IF g.data.some
                         THEN Some(Append(g.data.cmds, line_to(z)))
                         ELSE Some(<<move_to(z)>>),
              !.last = z]

\* --------------------------------------------------------------- grandma
\* grandma with the sign of 2i lost in the lower right entry of b
grandma_sign_slip(ta, tb) ==
    LET i == Complex_i
        disc == Csub(Csub(Cmul(Cmul(Cmul(ta, ta), tb), tb),
                          Cmul(Cmul(Real(4), ta), ta)),
                     Cmul(Cmul(Real(4), tb), tb))
        tab == Cmul([re |-> 1, im |-> 0, den |-> 2], Csub(Cmul(ta, tb), csqrt(disc)))
        scale == Cdiv(Cmul(Csub(tab, Real(2)), tb),
                      Cadd(Csub(Cmul(tb, tab), Cmul(Real(2), ta)),
                           Cmul(Cmul(Real(2), i), tab)))
        a == Mat_new(Cdiv(ta, Real(2)),
                     Cdiv(Cadd(Csub(Cmul(ta, tab), Cmul(Real(2), tb)), Cmul(Real(4), i)),
                          Cmul(Cadd(Cmul(Real(2), tab), Real(4)), scale)),
                     Cdiv(Cmul(scale, Csub(Csub(Cmul(ta, tab), Cmul(Real(2), tb)),
                                           Cmul(Real(4), i))),
                          Csub(Cmul(Real(2), tab), Real(4))),
                     Cdiv(ta, Real(2)))
        b == Mat_new(Cdiv(Csub(tb, Cmul(Real(2), i)), Real(2)),
                     Cdiv(tb, Real(2)),
                     Cdiv(tb, Real(2)),
                     Cdiv(Csub(tb, Cmul(Real(2), i)), Real(2)))
    IN  Kleinian_new(a, b)

grandma(ta, tb) ==
    LET i == Complex_i
        disc == Csub(Csub(Cmul(Cmul(Cmul(ta, ta), tb), tb),
                          Cmul(Cmul(Real(4), ta), ta)),
                     Cmul(Cmul(Real(4), tb), tb))
        tab == Cmul([re |-> 1, im |-> 0, den |-> 2], Csub(Cmul(ta, tb), csqrt(disc)))
        scale == Cdiv(Cmul(Csub(tab, Real(2)), tb),
                      Cadd(Csub(Cmul(tb, tab), Cmul(Real(2), ta)),
                           Cmul(Cmul(Real(2), i), tab)))
        a == Mat_new(Cdiv(ta, Real(2)),
                     Cdiv(Cadd(Csub(Cmul(ta, tab), Cmul(Real(2), tb)), Cmul(Real(4), i)),
                          Cmul(Cadd(Cmul(Real(2), tab), Real(4)), scale)),
                     Cdiv(Cmul(scale, Csub(Csub(Cmul(ta, tab), Cmul(Real(2), tb)),
                                           Cmul(Real(4), i))),
                          Csub(Cmul(Real(2), tab), Real(4))),
                     Cdiv(ta, Real(2)))
        b == Mat_new(Cdiv(Csub(tb, Cmul(Real(2), i)), Real(2)),
                     Cdiv(tb, Real(2)),
                     Cdiv(tb, Real(2)),
                     Cdiv(Cadd(tb, Cmul(Real(2), i)), Real(2)))
    IN  Kleinian_new(a, b)


\* ---------------------------------------------------------------- inputs
\* const EPSILON: f64 = 0.001, as the fraction <<numerator, denominator>>
EPSILON == <<1, 1000>>

\* drawing resolutions explored: the program's EPSILON and coarser ones,
\* so that the geometric cut-off fires at the depths explored
EpsChoices == {EPSILON, <<1, 2>>, <<1, 1>>}

\* trace pairs (ta, tb) explored: main's (2, 2), and two further pairs
\* whose generators are Gaussian rationals
TraceChoices ==
    {<<Complex_new(2, 0), Complex_new(2, 0)>>,
     <<Complex_new(2, 0), Complex_new(0, 2)>>,
     <<Complex_new(1, 1), Complex_new(1, -1)>>}

\* values of max_level explored (limitset takes any i64)
Levels == (-1)..MaxLevel

\* ----------------------------------------------------------------- state
VARIABLES
    ta,         \* first trace handed to grandma
    tb,         \* second trace handed to grandma
    eps,        \* the resolution EPSILON of this run, <<num, den>>
    max_level,  \* the level handed to limitset
    g,          \* the Kleinian state: mats, data, last
    stack,      \* call stack of limitset / branch frames, innermost last
    prev        \* path of the previous run (None if there was none)

vars == <<ta, tb, eps, max_level, g, stack, prev>>

\* the innermost frame
Top == stack[Len(stack)]

\* the stack after the innermost frame has returned
Pop == SubSeq(stack, 1, Len(stack) - 1)

\* a frame of limitset: pc 0 before g.line(one), pc 1..4 before the pc-th
\* call of branch, pc 5 on return
limitset_frame(level) ==
    [fn |-> "limitset", level |-> level, l |-> "A", t |-> Mat_id, pc |-> 0]

\* a frame of branch: pc 0 on entry (t is the argument), pc 1..3 before the
\* pc-th recursive call (t is the shadowing local t * mat(l)), pc 4 on return
branch_frame(level, l, t) ==
    [fn |-> "branch", level |-> level, l |-> l, t |-> t, pc |-> 0]

\* the top-level calls with the last two exchanged
limitset_order_exchanged == <<"A", "BI", "B", "AI">>

\* the order of the four top-level calls in limitset
limitset_order == <<"A", "BI", "AI", "B">>

\* the children table with the arm of B ending in the cancelling letter
branch_children_cancelling(l) ==
    CASE l = "A" -> <<"B", "A", "BI">>
      [] l = "B" -> <<"AI", "B", "BI">>
      [] l = "AI" -> <<"BI", "AI", "B">>
      [] l = "BI" -> <<"A", "BI", "AI">>

\* let (l1, l2, l3) = match l { ... }
branch_children(l) ==
    CASE l = "A" -> <<"B", "A", "BI">>
      [] l = "B" -> <<"AI", "B", "A">>
      [] l = "AI" -> <<"BI", "AI", "B">>
      [] l = "BI" -> <<"A", "BI", "AI">>

\* the prefix matrix left unextended
branch_t_unextended(f, k) == f.t

\* the prefix matrix extended on the wrong side
branch_t_reversed(f, k) == mul(mat(k, f.l), f.t)

\* let t = t * &g.mat(l)
branch_t(f, k) == mul(f.t, mat(k, f.l))

\* let z = t.mob(g.endfix(l))
branch_z(f, k) == mob(branch_t(f, k), endfix(k, f.l))

\* (g.last - z).norm_sqr() < EPSILON * EPSILON ; false on non-finite values
branch_close(f, k, e) ==
    LET d == Csub(k.last, branch_z(f, k))
        n == norm_sqr(d)
    IN  IsFinite(d) /\ FracLess(n[1], n[2], e[1] * e[1], e[2] * e[2])

\* the termination test with level < 0 for level <= 0
branch_stop_strict(f, k, e) == f.level < 0 \/ branch_close(f, k, e)

\* level <= 0 || (g.last - z).norm_sqr() < EPSILON * EPSILON
branch_stop(f, k, e) == f.level <= 0 \/ branch_close(f, k, e)

\* the program as started by main: g = grandma(ta, tb), limitset called
Init ==
    /\ \E tr \in TraceChoices : ta = tr[1] /\ tb = tr[2]
    /\ eps \in EpsChoices
    /\ max_level \in Levels
    /\ g = grandma(ta, tb)
    /\ stack = <<limitset_frame(max_level)>>
    /\ prev = None

\* limitset: g.line(one)
limitset_line ==
    /\ stack # << >>
    /\ Top.fn = "limitset" /\ Top.pc = 0
    /\ g' = line(g, one)
    /\ stack' = [stack EXCEPT ![Len(stack)].pc = 1]
    /\ UNCHANGED <<ta, tb, eps, max_level, prev>>

\* the top-level calls made with level for level - 1
limitset_call_same_level ==
    /\ stack # << >>
    /\ Top.fn = "limitset" /\ Top.pc \in 1..4
    /\ stack' = Append([stack EXCEPT ![Len(stack)].pc = Top.pc + 1],
                       [fn |-> "branch", level |-> Top.level,
                        l |-> limitset_order[Top.pc], t |-> Mat_id, pc |-> 0])
    /\ UNCHANGED <<ta, tb, eps, max_level, g, prev>>

\* limitset: branch(level - 1, A | BI | AI | B, &t, g) with t = Mat::id()
limitset_call ==
    /\ stack # << >>
    /\ Top.fn = "limitset" /\ Top.pc \in 1..4
    /\ stack' = Append([stack EXCEPT ![Len(stack)].pc = Top.pc + 1],
                       branch_frame(Top.level - 1, limitset_order[Top.pc], Mat_id))
    /\ UNCHANGED <<ta, tb, eps, max_level, g, prev>>

\* limitset returns to main
limitset_return ==
    /\ stack # << >>
    /\ Top.fn = "limitset" /\ Top.pc = 5
    /\ stack' = Pop
    /\ UNCHANGED <<ta, tb, eps, max_level, g, prev>>

\* branch: the termination test holds: g.line(z); return
branch_emit ==
    /\ stack # << >>
    /\ Top.fn = "branch" /\ Top.pc = 0
    /\ branch_stop(Top, g, eps)
    /\ g' = line(g, branch_z(Top, g))
    /\ stack' = Pop
    /\ UNCHANGED <<ta, tb, eps, max_level, prev>>

\* branch: the termination test fails: go on to the three recursive calls
branch_descend ==
    /\ stack # << >>
    /\ Top.fn = "branch" /\ Top.pc = 0
    /\ ~branch_stop(Top, g, eps)
    /\ stack' = [stack EXCEPT ![Len(stack)].t = branch_t(Top, g),
                              ![Len(stack)].pc = 1]
    /\ UNCHANGED <<ta, tb, eps, max_level, g, prev>>

\* branch: branch(level - 1, l1 | l2 | l3, &t, g)
branch_call ==
    /\ stack # << >>
    /\ Top.fn = "branch" /\ Top.pc \in 1..3
    /\ stack' = Append([stack EXCEPT ![Len(stack)].pc = Top.pc + 1],
                       branch_frame(Top.level - 1, branch_children(Top.l)[Top.pc], Top.t))
    /\ UNCHANGED <<ta, tb, eps, max_level, g, prev>>

\* branch returns after its third recursive call
branch_return ==
    /\ stack # << >>
    /\ Top.fn = "branch" /\ Top.pc = 4
    /\ stack' = Pop
    /\ UNCHANGED <<ta, tb, eps, max_level, g, prev>>

\* main run again with the same traces and max_level raised by one:
\* a fresh Kleinian from grandma, the finished path kept for comparison
main_rerun ==
    /\ stack = << >>
    /\ max_level < MaxLevel
    /\ prev' = g.data
    /\ max_level' = max_level + 1
    /\ g' = grandma(ta, tb)
    /\ stack' = <<limitset_frame(max_level + 1)>>
    /\ UNCHANGED <<ta, tb, eps>>

Next ==
    \/ limitset_line
    \/ limitset_call
    \/ limitset_return
    \/ branch_emit
    \/ branch_descend
    \/ branch_call
    \/ branch_return
    \/ main_rerun

Spec == Init /\ [][Next]_vars


\* ------------------------------------------------- vocabulary of the claims
\* the path commands issued so far
Cmds == g.data.cmds

\* the points of a sequence of path commands, in order
Points(cmds) == [k \in 1..Len(cmds) |-> cmds[k].p]

\* number of line_to commands issued so far
LineCount == Cardinality({k \in 1..Len(Cmds) : Cmds[k].op = "line_to"})

\* limitset has returned
Done == stack = << >>

\* number of branch frames nested at this moment
Depth == IF stack = << >> THEN 0 ELSE Len(stack) - 1

\* the traces of the spec's scenarios
Traces22 == ta = Complex_new(2, 0) /\ tb = Complex_new(2, 0)

\* |p - q| < tol, tol a fraction <<num, den>>
Within(p, q, tol) ==
    LET d == Csub(p, q)
        n == norm_sqr(d)
    IN  IsFinite(d) /\ FracLess(n[1], n[2], tol[1] * tol[1], tol[2] * tol[2])

RECURSIVE Pow3(_)
Pow3(n) == IF n <= 0 THEN 1 ELSE 3 * Pow3(n - 1)

\* s is a subsequence of r (same relative order)
RECURSIVE IsSubseq(_, _)
IsSubseq(s, r) ==
    IF s = << >> THEN TRUE
    ELSE IF r = << >> THEN FALSE
    ELSE IF Head(s) = Head(r) THEN IsSubseq(Tail(s), Tail(r))
    ELSE IsSubseq(s, Tail(r))

\* the letters of the branch frames stack[2..n], outermost first
Word(n) == [k \in 1..(n - 1) |-> stack[k + 1].l]

\* the product mat(w[1]) * mat(w[2]) * ... * mat(w[Len(w)]), identity if empty
RECURSIVE WordProduct(_)
WordProduct(w) ==
    IF w = << >> THEN Mat_id ELSE mul(mat(g, Head(w)), WordProduct(Tail(w)))

\* ------------------------------------------------------------------- C1
\* C1: at every moment the path is either still empty or consists of
\* exactly one move_to, which is its first command and goes to (1, 0),
\* followed by line_to commands only.
C1_OneMoveTo ==
    /\ ~g.data.some => Cmds = << >>
    /\ g.data.some =>
         /\ Len(Cmds) >= 1
         /\ Cmds[1] = move_to(Complex_new(1, 0))
         /\ \A k \in 2..Len(Cmds) : Cmds[k].op = "line_to"

C1_Witness ==
    /\ Done
    /\ Len(Cmds) > 5
    /\ Cmds[1].op = "move_to"

\* ------------------------------------------------------------------- C2
\* C2: with traces (2, 2) and max_level >= 1, once limitset has returned
\* the last point of the path is within 1e-3 of the seed (1, 0).
C2_Closed ==
    (Done /\ Traces22 /\ max_level >= 1) =>
        /\ Len(Cmds) >= 2
        /\ Within(Cmds[Len(Cmds)].p, Complex_new(1, 0), <<1, 1000>>)
        /\ Within(g.last, Complex_new(1, 0), <<1, 1000>>)

\* a finished run in which the last top-level branch B was expanded
C2_Witness ==
    /\ Done /\ Traces22 /\ max_level >= 2
    /\ eps = EPSILON
    /\ Len(Cmds) > 5
    /\ Cmds[Len(Cmds)].p = Complex_new(1, 0)

\* ------------------------------------------------------------------- C3
\* the generators of traces (2, 2) as the claim names them
C3_AInv == adj(g.mats.a)

C3_BInv == adj(g.mats.b)

\* C3 as stated: limitset(1) with traces (2, 2) emits move_to(1, 0) and four
\* line_to whose endpoints are, in order, apply(B^-1*A^-1, 1),
\* apply(A^-1, 1), apply(B^-1, 1) and 1.
C3_Original ==
    (Done /\ Traces22 /\ max_level = 1) =>
        /\ Len(Cmds) = 5
        /\ Cmds[1] = move_to(Complex_new(1, 0))
        /\ \A k \in 2..5 : Cmds[k].op = "line_to"
        /\ Points(SubSeq(Cmds, 2, 5)) =
             <<mob(mul(C3_BInv, C3_AInv), one), mob(C3_AInv, one),
               mob(C3_BInv, one), one>>

\* C3 amended: limitset(1) with traces (2, 2) emits move_to(1, 0) and four
\* line_to whose endpoints are, in order for (A, B^-1, A^-1, B), the points
\* apply(mat(L) * tail(L), 1): apply(B^-1, 1) = -1,
\* apply(B^-1*A^-1, 1) = (-1-2i)/5, apply(A^-1, 1) = (1-2i)/5 and 1.
C3_FiveCommands ==
    (Done /\ Traces22 /\ max_level = 1) =>
        /\ Len(Cmds) = 5
        /\ Cmds[1] = move_to(Complex_new(1, 0))
        /\ \A k \in 2..5 : Cmds[k].op = "line_to"
        /\ Points(SubSeq(Cmds, 2, 5)) =
             <<mob(C3_BInv, one), mob(mul(C3_BInv, C3_AInv), one),
               mob(C3_AInv, one), one>>
        /\ Points(SubSeq(Cmds, 2, 5)) =
             <<[re |-> -1, im |-> 0, den |-> 1], [re |-> -1, im |-> -2, den |-> 5],
               [re |-> 1, im |-> -2, den |-> 5], [re |-> 1, im |-> 0, den |-> 1]>>

C3_Witness == Done /\ Traces22 /\ max_level = 1 /\ Len(Cmds) = 5

\* ------------------------------------------------------------------- C4
C4_Det(m) == Csub(Cmul(m.a, m.d), Cmul(m.b, m.c))

C4_Commutator == mul(mul(mul(g.mats.a, g.mats.b), adj(g.mats.a)), adj(g.mats.b))

\* C4: the generators built by grandma have determinant 1, their commutator
\* a*b*adj(a)*adj(b) has trace -2 and fixes the seed point 1; for traces
\* (2, 2), b = [[1-i, 1], [1, 1+i]].
C4_Grandma ==
    /\ C4_Det(g.mats.a) = Complex_new(1, 0)
    /\ C4_Det(g.mats.b) = Complex_new(1, 0)
    /\ Cadd(C4_Commutator.a, C4_Commutator.d) = Complex_new(-2, 0)
    /\ mob(C4_Commutator, Complex_new(1, 0)) = Complex_new(1, 0)
    /\ Traces22 =>
         g.mats.b = [a |-> Complex_new(1, -1), b |-> Complex_new(1, 0),
                     c |-> Complex_new(1, 0), d |-> Complex_new(1, 1)]

C4_Witness ==
    /\ Traces22
    /\ g.mats.a = [a |-> Complex_new(1, 0), b |-> Complex_new(0, 0),
                   c |-> Complex_new(0, -2), d |-> Complex_new(1, 0)]
    /\ g.mats.ainv = adj(g.mats.a)
    /\ prev.some


\* ------------------------------------------------------------------- C5
\* C5: for fixed traces and fixed epsilon, the points emitted by
\* limitset(max_level) form a subsequence of the points emitted by
\* limitset(max_level + 1), and the number of commands does not decrease.
C5_Refines ==
    (Done /\ prev.some) =>
        /\ IsSubseq(Points(prev.cmds), Points(Cmds))
        /\ Len(prev.cmds) <= Len(Cmds)

\* a finished run that strictly refines an already subdivided previous run
C5_Witness ==
    /\ Done /\ prev.some
    /\ Len(prev.cmds) > 5
    /\ Len(Cmds) > Len(prev.cmds)

\* ------------------------------------------------------------------- C6
\* the table of the claim: L, then its three children in order
C6_Table ==
    {<<"A", "B", "A", "BI">>, <<"B", "AI", "B", "A">>,
     <<"AI", "BI", "AI", "B">>, <<"BI", "A", "BI", "AI">>}

\* C6: in every branch frame with letter L the three children are the three
\* letters different from inv(L), in the table order with the middle child
\* equal to L; the letters along the chain of nested frames form a reduced
\* word.
C6_ReducedWords ==
    /\ \A n \in 2..Len(stack) :
         LET L == stack[n].l
             c == branch_children(L)
         IN  /\ {c[1], c[2], c[3]} = Letter \ {inv(L)}
             /\ c[2] = L
             /\ <<L, c[1], c[2], c[3]>> \in C6_Table
             /\ (n < Len(stack) /\ stack[n].pc \in 2..4) =>
                    stack[n + 1].l = c[stack[n].pc - 1]
    /\ \A n \in 2..(Len(stack) - 1) : stack[n + 1].l # inv(stack[n].l)

\* three nested branch frames, the innermost an outer (sideways) child
C6_Witness ==
    /\ Len(stack) >= 4
    /\ stack[4].l # stack[3].l
    /\ stack[3].l # stack[2].l

\* ------------------------------------------------------------------- C7
\* C7 as stated: at entry to every branch frame the argument t is the
\* product of the generator matrices of the prefix word up to and including
\* the frame's own letter.
C7_Original ==
    (stack # << >> /\ Top.fn = "branch" /\ Top.pc = 0) =>
        Top.t = WordProduct(Word(Len(stack)))

\* C7 amended: at entry to every branch frame the argument t is the product
\* of the generator matrices of the prefix word up to but excluding the
\* frame's own letter (the identity for a top-level frame); the frame's
\* local t = t * mat(last) computed next is the product including it.
C7_PrefixProduct ==
    \A n \in 2..Len(stack) :
        /\ stack[n].pc = 0 => stack[n].t = WordProduct(Word(n - 1))
        /\ stack[n].pc >= 1 => stack[n].t = WordProduct(Word(n))

\* a frame entered under two enclosing frames with different letters
C7_Witness ==
    /\ Len(stack) >= 4
    /\ Top.pc = 0
    /\ stack[2].l # stack[3].l
    /\ Top.t # Mat_id

\* ------------------------------------------------------------------- C8
\* C8 as stated: for every max_level >= 0 the number of nested branch
\* frames never exceeds max_level.
C8_Original == max_level >= 0 => Depth <= max_level

\* C8 amended: the number of nested branch frames never exceeds max_level
\* when max_level >= 1, and never exceeds 1 when max_level <= 0.
C8_DepthBound == Depth <= (IF max_level >= 1 THEN max_level ELSE 1)

\* the bound is reached by a run of at least two levels
C8_Witness == max_level >= 2 /\ Depth = max_level

\* ------------------------------------------------------------------- C9
\* what one step of a branch frame does
C9_Step ==
    (stack # << >> /\ Top.fn = "branch") =>
        /\ (Top.pc = 0 /\ branch_stop(Top, g, eps)) =>
              /\ g'.data.cmds = Append(Cmds, line_to(g'.last))
              /\ stack' = Pop
        /\ (Top.pc = 0 /\ ~branch_stop(Top, g, eps)) =>
              /\ g' = g
              /\ Len(stack') = Len(stack)
              /\ stack'[Len(stack)].pc = 1
        /\ Top.pc >= 1 =>
              /\ g' = g
              /\ Top.level > 0
              /\ Len(stack') > Len(stack) =>
                    /\ Top.pc \in 1..3
                    /\ stack'[Len(stack)].pc = Top.pc + 1
                    /\ stack'[Len(stack')].level = Top.level - 1
                    /\ stack'[Len(stack')].pc = 0
              /\ Len(stack') <= Len(stack) =>
                    /\ Top.pc = 4
                    /\ stack' = Pop

\* the number of line_to commands of a finished run
C9_Count ==
    Done =>
        /\ LineCount >= 4
        /\ max_level >= 1 => LineCount <= 4 * Pow3(max_level - 1)

\* an upper bound on the steps a branch frame entered at level v can take
RECURSIVE C9_Work(_)
C9_Work(v) == IF v <= 0 THEN 1 ELSE 3 * C9_Work(v - 1) + 5

\* an upper bound on the steps the frame f and its future callees can take
C9_Remaining(f) ==
    IF f.fn = "branch"
    THEN IF f.pc = 0 THEN C9_Work(f.level)
         ELSE (4 - f.pc) * (1 + C9_Work(f.level - 1)) + 1
    ELSE IF f.pc = 0 THEN 4 * (1 + C9_Work(f.level - 1)) + 2
         ELSE (5 - f.pc) * (1 + C9_Work(f.level - 1)) + 1

\* the variant of a run: it is a natural number, 0 exactly when limitset
\* has returned
RECURSIVE C9_Measure(_)
C9_Measure(s) == IF s = << >> THEN 0 ELSE C9_Remaining(Head(s)) + C9_Measure(Tail(s))

\* an unfinished run can always take its next step
C9_Progress ==
    ~Done =>
        \/ Top.fn = "limitset" /\ Top.pc \in 0..5
        \/ Top.fn = "branch" /\ Top.pc \in 0..4

\* C9: every run of limitset terminates (each of its steps lowers a
\* natural-number variant and an unfinished run is never stuck); a frame
\* whose termination test holds emits exactly one line_to and makes no call,
\* every other frame emits nothing and makes exactly three calls with
\* level - 1; a finished run has emitted at least 4 and, for
\* max_level >= 1, at most 4 * 3^(max_level - 1) line_to commands.
C9_Terminates ==
    /\ [][C9_Step /\ (~Done => C9_Measure(stack') < C9_Measure(stack))]_vars
    /\ [](C9_Count /\ C9_Progress /\ C9_Measure(stack) >= 0)

\* a finished run that reached the upper bound after real recursion
C9_Witness == Done /\ max_level >= 2 /\ LineCount = 4 * Pow3(max_level - 1)

\* ------------------------------------------------------------------ C10
\* the last plotted point on entry to the frame stack[n], as a function of
\* the word and of the position among its siblings only
RECURSIVE C10_EntryPoint(_)
C10_EntryPoint(n) ==
    IF n <= 1 THEN one
    ELSE LET par == stack[n - 1]
             k == par.pc - 1
             sib == IF par.fn = "limitset" THEN limitset_order[k - 1]
                    ELSE branch_children(par.l)[k - 1]
         IN  IF k = 1 THEN C10_EntryPoint(n - 1)
             ELSE mob(mul(par.t, mat(g, sib)), endfix(g, sib))

\* C10: for every letter L with third child l3, endfix(L) =
\* apply(mat(l3), endfix(l3)); a frame that has returned from its three
\* calls leaves as last plotted point the point it would have emitted
\* itself; and the last plotted point on entry to a frame is determined by
\* the word and not by how deeply the preceding frames were expanded.
C10_EndpointConsistency ==
    /\ \A L \in Letter :
         endfix(g, L) = mob(mat(g, branch_children(L)[3]),
                            endfix(g, branch_children(L)[3]))
    /\ (stack # << >> /\ Top.fn = "branch" /\ Top.pc = 4) =>
         g.last = mob(Top.t, endfix(g, Top.l))
    /\ (stack # << >> /\ Top.fn = "branch" /\ Top.pc = 0) =>
         g.last = C10_EntryPoint(Len(stack))

\* a nested frame that has just returned from its three recursive calls
C10_Witness ==
    /\ Len(stack) >= 3
    /\ Top.fn = "branch" /\ Top.pc = 4
    /\ g.last = mob(Top.t, endfix(g, Top.l))

====
